---- MODULE Spec2Model ----
(***************************************************************************)
(* Model of the NOAA tide-prediction downloader (fetch.py) and of its      *)
(* error-log reporter (display_errors.py).                                 *)
(*                                                                         *)
(* Text (station ids, log lines, printed lines) is modelled as sequences   *)
(* of one-character strings, so that formatting and the regular-expression *)
(* match of the reporter are computed character by character.              *)
(***************************************************************************)
EXTENDS Integers, Sequences, FiniteSets, TLC

\* ------------------------------------------------------------------ bounds
\* Number of times the Fetcher is started against the same directory.
MaxRuns == 2
\* Longest error_log.txt the Fetcher model lets grow (the file is unbounded):
\* a call that would append beyond it is not taken.
MaxLog == 1
\* Longest error_log.txt handed to the reporter model.
MaxLines == 3

\* --------------------------------------------------------------- constants
\* fetch.py: YEARS = range(2025, 2030)
YearStart == 2025
YearStop == 2030
YEARS == [i \in 1..(YearStop - YearStart) |-> YearStart + i - 1]

\* fetch.py: the only status that is not logged as an HTTP error
HTTP_OK == 200

\* ------------------------------------------------------------------- text
DigitChars == <<"0","1","2","3","4","5","6","7","8","9">>

IsDigit(c) == \E i \in 1..10 : DigitChars[i] = c

\* code point order of the ASCII digits
Ord(c) == 47 + (CHOOSE i \in 1..10 : DigitChars[i] = c)

\* f"{n}" for a non-negative integer
RECURSIVE Str(_)
Str(n) == IF n < 10 THEN <<DigitChars[n + 1]>>
          ELSE Str(n \div 10) \o <<DigitChars[(n % 10) + 1]>>

NL == "\n"

TxtErrorStation == <<"E","r","r","o","r",":"," ","S","t","a","t","i","o","n"," ">>
TxtExceptionStation == <<"E","x","c","e","p","t","i","o","n",":"," ","S","t","a","t","i","o","n"," ">>
TxtYear == <<","," ","y","e","a","r"," ">>
TxtColon == <<":"," ">>
TxtHTTP == <<"H","T","T","P"," ">>
TxtNoPredictions == <<"N","o"," ","p","r","e","d","i","c","t","i","o","n","s"," ","d","a","t","a">>

\* str(e): the text of an exception is the environment's; one text stands for all
StrE == <<"f","a","i","l","e","d">>

\* fetch.py:64  f"Error: Station {station_id}, year {year}: HTTP {response.status_code}\n"
HttpErrorLine(station_id, year, status) ==
    TxtErrorStation \o station_id \o TxtYear \o Str(year) \o TxtColon
        \o TxtHTTP \o Str(status) \o <<NL>>

\* fetch.py:73  f"Error: Station {station_id}, year {year}: No predictions data\n"
NoPredictionsLine(station_id, year) ==
    TxtErrorStation \o station_id \o TxtYear \o Str(year) \o TxtColon
        \o TxtNoPredictions \o <<NL>>

\* fetch.py:85  f"Exception: Station {station_id}, year {year}: {str(e)}\n"
ExceptionLine(station_id, year, msg) ==
    TxtExceptionStation \o station_id \o TxtYear \o Str(year) \o TxtColon
        \o msg \o <<NL>>

\* --------------------------------------------------------------- stations
StationA == [id |-> <<"9">>, name |-> <<"A","l","p","h","a">>]
StationB == [id |-> <<"1","2">>, name |-> <<"B","e","t","a">>]
StationPool == {StationA, StationB}

\* the lists california.json may hold: {id, name} objects, ids not checked
StationLists == {<<>>, <<StationA>>, <<StationA, StationA>>, <<StationA, StationB>>}

StationIds == {s.id : s \in StationPool}
Keys == StationIds \X {YEARS[i] : i \in DOMAIN YEARS}

\* -------------------------------------------------------- HTTP responses
Statuses == {HTTP_OK, 201, 404}

\* parsed JSON documents the endpoint may answer with
DataPredictions == [predictions |-> <<"3.2">>]
DataEmpty == [predictions |-> <<>>]
DataError == [error |-> "No data was found"]

\* A response body is its text layout together with the document the text
\* encodes: "api" is the endpoint's own spacing, "dump" the spacing json.dump
\* writes, "html" a body that is no JSON document at all.
BodyNotJson == [layout |-> "html", json |-> [html |-> "Service Unavailable"]]
Bodies == [layout : {"api"}, json : {DataPredictions, DataEmpty, DataError}]
              \cup {BodyNotJson}

BodyPredictions == [layout |-> "api", json |-> DataPredictions]

\* the answers httpx.get may return
Responses == {r \in [status : Statuses, body : Bodies] :
                 \/ r.status = HTTP_OK
                 \/ r.status = 201 /\ r.body = BodyPredictions
                 \/ r.status = 404 /\ r.body = BodyNotJson}

\* fetch.py:68  data = response.json()   (raises on a body that is no JSON)
ParseOk(body) == body.layout # "html"
Parse(body) == body.json

\* fetch.py:71  "predictions" not in data or not data["predictions"]
NoPredictions(data) == IF "predictions" \notin DOMAIN data THEN TRUE
                       ELSE data.predictions = <<>>

\* fetch.py:77-78  json.dump(data, f): the document in json.dump's own layout
Dump(data) == [layout |-> "dump", json |-> data]

\* content of a .json.gz file: the text written before it was closed
Written(text) == [complete |-> TRUE, text |-> text]
Truncated == [complete |-> FALSE, text |-> "partial"]

\* ------------------------------------------------------------------ state
VARIABLES
    stations,             \* california.json as loaded: sequence of {id, name}
    loads,                \* california.json can be opened and parsed
    artifacts,            \* stations/<id>/<year>.json.gz: key -> file content
    error_log,            \* error_log.txt: sequence of lines
    pc,                   \* Fetcher: "idle", "loop", "done", "loadfail", "crashed"
    si, yi,               \* Fetcher: position of the two nested for loops
    successful_requests,  \* fetch.py:104
    failed_requests,      \* fetch.py:105
    run,                  \* number of Fetcher runs started so far
    prev_end,             \* history: how the run before this one ended
    requests,             \* history: HTTP requests issued per key in this run
    sleeps,               \* history: time.sleep calls in this run
    tally,                \* history: calls of this run by outcome
    logged,               \* history: keys a log line was appended for in this run
    at_start,             \* history: keys that had an artifact when this run began
    persisted,            \* history: keys some call saved and returned True for
    last,                 \* history: what the latest call did
    station_errors,       \* Reporter: the grouping, in insertion order
    rpc,                  \* Reporter: "off", "read", "display"
    rpos,                 \* Reporter: next log line / next station block
    output                \* Reporter: the lines printed so far

fetcher_vars == <<stations, loads, artifacts, error_log, pc, si, yi, successful_requests,
                  failed_requests, run, prev_end, requests, sleeps, tally, logged, at_start,
                  persisted, last>>
reporter_vars == <<station_errors, rpc, rpos, output>>
vars == <<fetcher_vars, reporter_vars>>

\* ---------------------------------------------------------------- Fetcher
ZeroTally == [saved |-> 0, skipped |-> 0, failed |-> 0]
NoBody == [layout |-> "none", json |-> [none |-> TRUE]]
NoCall == [key |-> <<>>, existed |-> FALSE, requested |-> 0, status |-> 0,
           body |-> NoBody, persist |-> "none", wrote |-> 0, appended |-> 0,
           ret |-> "none"]

\* the key the loops are at (fetch.py:114-115, 122)
Station == stations[si]
Sid == Station.id
Year == YEARS[yi]
Key == <<Sid, Year>>

\* a file check that looks at the following year's file
ExistsNextYear(station_id, year) == <<station_id, year + 1>> \in DOMAIN artifacts

\* fetch.py:51-54  os.path.exists(output_file)
Exists(station_id, year) == <<station_id, year>> \in DOMAIN artifacts

\* the comparison the wrong way round
StatusIsErrorInverted(status) == status = HTTP_OK

\* fetch.py:61  response.status_code != 200
StatusIsError(status) == status # HTTP_OK

\* fetch.py:77  gzip.open(output_file, 'wt') creates or replaces the file
Store(key, content) ==
    [k \in DOMAIN artifacts \cup {key} |-> IF k = key THEN content ELSE artifacts[k]]

\* a count that ignores the result
CountSuccessfulAlways(result) == successful_requests + 1

\* fetch.py:125-128  if result: successful_requests += 1 else: failed_requests += 1
CountSuccessful(result) ==
    IF result THEN successful_requests + 1 ELSE successful_requests
CountFailed(result) ==
    IF result THEN failed_requests ELSE failed_requests + 1

\* fetch.py:134  year != YEARS[-1] or station != stations[-1]
SleepDue == \/ Year # YEARS[Len(YEARS)]
            \/ Station # stations[Len(stations)]

\* fetch.py:122-135  the rest of the loop body once the call has returned
Account(result) ==
    /\ successful_requests' = CountSuccessful(result)
    /\ failed_requests' = CountFailed(result)
    /\ sleeps' = IF SleepDue THEN sleeps + 1 ELSE sleeps
    /\ IF yi < Len(YEARS)
         THEN si' = si /\ yi' = yi + 1 /\ pc' = "loop"
         ELSE IF si < Len(stations)
                THEN si' = si + 1 /\ yi' = 1 /\ pc' = "loop"
                ELSE si' = si /\ yi' = yi /\ pc' = "done"

\* the call returned True or False to main
Returned(call, result) ==
    /\ last' = call
    /\ Account(result)

\* the call raised: nothing in main catches it, the process ends (fetch.py:123)
Raised(call) ==
    /\ last' = [NoCall EXCEPT !.key = call.key, !.existed = call.existed,
                           !.requested = call.requested, !.wrote = call.wrote,
                           !.ret = "raise"]
    /\ pc' = "crashed"
    /\ UNCHANGED <<si, yi, successful_requests, failed_requests, sleeps>>

\* fetch.py:82-86  except Exception as e: append the Exception line, return False;
\* handler_ok = FALSE: open/write of error_log.txt raises inside the handler
Handler(call, msg, handler_ok) ==
    IF handler_ok
      THEN /\ Len(error_log) < MaxLog
           /\ error_log' = Append(error_log, ExceptionLine(Sid, Year, msg))
           /\ logged' = logged \cup {Key}
           /\ tally' = [tally EXCEPT !.failed = @ + 1]
           /\ Returned([call EXCEPT !.appended = @ + 1, !.ret = "False"], FALSE)
      ELSE /\ UNCHANGED <<error_log, logged, tally>>
           /\ Raised(call)

\* fetch.py:62-65, 72-74  append an Error line inside the try block, return False;
\* log_ok = FALSE: the append raises and the except clause takes over
LogAndFail(call, line, log_ok, handler_ok) ==
    IF log_ok
      THEN /\ Len(error_log) < MaxLog
           /\ error_log' = Append(error_log, line)
           /\ logged' = logged \cup {Key}
           /\ tally' = [tally EXCEPT !.failed = @ + 1]
           /\ Returned([call EXCEPT !.appended = @ + 1, !.ret = "False"], FALSE)
      ELSE Handler(call, StrE, handler_ok)

Requested(status, body) ==
    [NoCall EXCEPT !.key = Key, !.requested = 1, !.status = status, !.body = body]

\* fetch.py:59  httpx.get(url, timeout=60) is called
IssueRequest == requests' = [requests EXCEPT ![Key] = @ + 1]

\* fetch.py:88-112  main up to the loops: "stations" exists or is created,
\* california.json is loaded, the counters start at 0
MainStart ==
    /\ pc \in {"idle", "done", "crashed"}
    /\ loads
    /\ run < MaxRuns
    /\ run' = run + 1
    /\ prev_end' = pc
    /\ successful_requests' = 0
    /\ failed_requests' = 0
    /\ requests' = [k \in Keys |-> 0]
    /\ sleeps' = 0
    /\ tally' = ZeroTally
    /\ logged' = {}
    /\ at_start' = DOMAIN artifacts
    /\ last' = NoCall
    /\ si' = 1 /\ yi' = 1
    /\ pc' = IF Len(stations) = 0 THEN "done" ELSE "loop"
    /\ UNCHANGED <<stations, loads, artifacts, error_log, persisted, reporter_vars>>

\* fetch.py:93-98  california.json cannot be loaded: message, return
MainLoadFails ==
    /\ pc \in {"idle", "loadfail"}
    /\ ~loads
    /\ run < MaxRuns
    /\ run' = run + 1
    /\ prev_end' = pc
    /\ pc' = "loadfail"
    /\ UNCHANGED <<stations, loads, artifacts, error_log, si, yi,
                   successful_requests, failed_requests, requests, sleeps, tally,
                   logged, at_start, persisted, last, reporter_vars>>

\* fetch.py:47-48  ensure_directory(station_dir) raises, outside the try block
CallDirFails ==
    /\ pc = "loop"
    /\ Raised([NoCall EXCEPT !.key = Key, !.existed = Exists(Sid, Year)])
    /\ UNCHANGED <<stations, loads, artifacts, error_log, run, prev_end, requests, tally, logged,
                   at_start, persisted, reporter_vars>>

\* fetch.py:53-55  the file exists: return True
CallSkip ==
    /\ pc = "loop"
    /\ Exists(Sid, Year)
    /\ tally' = [tally EXCEPT !.skipped = @ + 1]
    /\ Returned([NoCall EXCEPT !.key = Key, !.existed = TRUE, !.ret = "True"], TRUE)
    /\ UNCHANGED <<stations, loads, artifacts, error_log, run, prev_end, requests, logged,
                   at_start, persisted, reporter_vars>>

\* fetch.py:59  httpx.get raises (timeout, connection error)
CallRequestFails ==
    /\ pc = "loop"
    /\ ~Exists(Sid, Year)
    /\ IssueRequest
    /\ \E handler_ok \in BOOLEAN :
         Handler(Requested(0, NoBody), StrE, handler_ok)
    /\ UNCHANGED <<stations, loads, artifacts, run, prev_end, at_start, persisted, reporter_vars>>

\* fetch.py:61-65  status other than 200
CallHttpError ==
    /\ pc = "loop"
    /\ ~Exists(Sid, Year)
    /\ IssueRequest
    /\ \E r \in Responses, log_ok \in BOOLEAN, handler_ok \in BOOLEAN :
         /\ StatusIsError(r.status)
         /\ LogAndFail(Requested(r.status, r.body),
                       HttpErrorLine(Sid, Year, r.status), log_ok, handler_ok)
    /\ UNCHANGED <<stations, loads, artifacts, run, prev_end, at_start, persisted, reporter_vars>>

\* fetch.py:68  response.json() raises
CallBadJson ==
    /\ pc = "loop"
    /\ ~Exists(Sid, Year)
    /\ IssueRequest
    /\ \E r \in Responses, handler_ok \in BOOLEAN :
         /\ ~StatusIsError(r.status)
         /\ ~ParseOk(r.body)
         /\ Handler(Requested(r.status, r.body), StrE, handler_ok)
    /\ UNCHANGED <<stations, loads, artifacts, run, prev_end, at_start, persisted, reporter_vars>>

\* fetch.py:71-74  no "predictions", or an empty one
CallNoPredictions ==
    /\ pc = "loop"
    /\ ~Exists(Sid, Year)
    /\ IssueRequest
    /\ \E r \in Responses, log_ok \in BOOLEAN, handler_ok \in BOOLEAN :
         /\ ~StatusIsError(r.status)
         /\ ParseOk(r.body)
         /\ NoPredictions(Parse(r.body))
         /\ LogAndFail(Requested(r.status, r.body),
                       NoPredictionsLine(Sid, Year), log_ok, handler_ok)
    /\ UNCHANGED <<stations, loads, artifacts, run, prev_end, at_start, persisted, reporter_vars>>

\* fetch.py:76-80  the document is written and the call returns True
CallSaved ==
    /\ pc = "loop"
    /\ ~Exists(Sid, Year)
    /\ IssueRequest
    /\ \E r \in Responses :
         /\ ~StatusIsError(r.status)
         /\ ParseOk(r.body)
         /\ ~NoPredictions(Parse(r.body))
         /\ artifacts' = Store(Key, Written(Dump(Parse(r.body))))
         /\ persisted' = persisted \cup {Key}
         /\ tally' = [tally EXCEPT !.saved = @ + 1]
         /\ Returned([Requested(r.status, r.body) EXCEPT !.persist = "ok",
                         !.wrote = 1, !.ret = "True"], TRUE)
    /\ UNCHANGED <<stations, loads, error_log, run, prev_end, logged, at_start, reporter_vars>>

\* fetch.py:77  gzip.open raises before the file is created
CallOpenFails ==
    /\ pc = "loop"
    /\ ~Exists(Sid, Year)
    /\ IssueRequest
    /\ \E r \in Responses, handler_ok \in BOOLEAN :
         /\ ~StatusIsError(r.status)
         /\ ParseOk(r.body)
         /\ ~NoPredictions(Parse(r.body))
         /\ Handler([Requested(r.status, r.body) EXCEPT !.persist = "open_fails"],
                    StrE, handler_ok)
    /\ UNCHANGED <<stations, loads, artifacts, run, prev_end, at_start, persisted, reporter_vars>>

\* fetch.py:77-78  the file is created, then json.dump or the closing flush raises
CallWriteFails ==
    /\ pc = "loop"
    /\ ~Exists(Sid, Year)
    /\ IssueRequest
    /\ \E r \in Responses, handler_ok \in BOOLEAN :
         /\ ~StatusIsError(r.status)
         /\ ParseOk(r.body)
         /\ ~NoPredictions(Parse(r.body))
         /\ artifacts' = Store(Key, Truncated)
         /\ Handler([Requested(r.status, r.body) EXCEPT !.persist = "write_fails",
                        !.wrote = 1], StrE, handler_ok)
    /\ UNCHANGED <<stations, loads, run, prev_end, at_start, persisted, reporter_vars>>

\* --------------------------------------------------------------- Reporter
TxtStation == <<"S","t","a","t","i","o","n"," ">>
TxtOpen == <<" ","(">>
TxtClose == <<")",":">>
TxtIndent == <<" "," ">>
TxtComma == <<","," ">>
TxtMissing == <<"M","i","s","s","i","n","g">>
TxtUnknownStation == <<"U","n","k","n","o","w","n"," ","S","t","a","t","i","o","n">>

\* line[i..] starts with the literal lit
HasAt(line, i, lit) ==
    /\ i + Len(lit) - 1 <= Len(line)
    /\ SubSeq(line, i, i + Len(lit) - 1) = lit

\* \d+ from position i: the position after the longest run of digits
RECURSIVE DigitsEnd(_, _)
DigitsEnd(line, i) ==
    IF i <= Len(line) /\ IsDigit(line[i]) THEN DigitsEnd(line, i + 1) ELSE i

\* .+ from position i: the position after the longest run without a newline
RECURSIVE DotEnd(_, _)
DotEnd(line, i) ==
    IF i <= Len(line) /\ line[i] # NL THEN DotEnd(line, i + 1) ELSE i

NoMatch == [matched |-> FALSE, station_id |-> <<>>, year |-> <<>>, message |-> <<>>]

\* re.match(prefix + r"(\d+), year (\d+): (.+)", line): anchored at the start of
\* the line, each group greedy. A shorter \d+ never helps: the next character
\* would be a digit where the pattern has "," or ":".
MatchWith(prefix, line) ==
    LET a == 1 + Len(prefix)
        b == DigitsEnd(line, a)
        c == b + Len(TxtYear)
        d == DigitsEnd(line, c)
        e == d + Len(TxtColon)
        f == DotEnd(line, e)
    IN  IF /\ HasAt(line, 1, prefix)
           /\ b > a
           /\ HasAt(line, b, TxtYear)
           /\ d > c
           /\ HasAt(line, d, TxtColon)
           /\ f > e
          THEN [matched |-> TRUE, station_id |-> SubSeq(line, a, b - 1),
                year |-> SubSeq(line, c, d - 1), message |-> SubSeq(line, e, f - 1)]
          ELSE NoMatch

\* a pattern that takes either category word
MatchEitherCategory(line) ==
    IF HasAt(line, 1, TxtExceptionStation)
      THEN MatchWith(TxtExceptionStation, line)
      ELSE MatchWith(TxtErrorStation, line)

\* display_errors.py:13, 18  re.match(r"Error: Station (\d+), year (\d+): (.+)", line)
Match(line) == MatchWith(TxtErrorStation, line)

\* position of the entry with the given key in an insertion-ordered dict, 0 if none
StationIndex(se, station_id) ==
    IF \E i \in DOMAIN se : se[i].station_id = station_id
      THEN CHOOSE i \in DOMAIN se : se[i].station_id = station_id
      ELSE 0
MessageIndex(ms, message) ==
    IF \E j \in DOMAIN ms : ms[j].message = message
      THEN CHOOSE j \in DOMAIN ms : ms[j].message = message
      ELSE 0

\* display_errors.py:14, 21  station_errors[station_id][message].append(year)
\* on a defaultdict of defaultdict(list): a missing key is inserted at the end
AddYear(se, station_id, message, year) ==
    LET se1 == IF StationIndex(se, station_id) = 0
                 THEN Append(se, [station_id |-> station_id, messages |-> <<>>])
                 ELSE se
        i == StationIndex(se1, station_id)
        ms == se1[i].messages
        ms1 == IF MessageIndex(ms, message) = 0
                 THEN Append(ms, [message |-> message, years |-> <<>>])
                 ELSE ms
        j == MessageIndex(ms1, message)
    IN  [se1 EXCEPT ![i].messages = [ms1 EXCEPT ![j].years = Append(@, year)]]

\* a < b for strings of digits, compared code point by code point (Python str <)
RECURSIVE StrLess(_, _)
StrLess(a, b) ==
    IF a = <<>> THEN b # <<>>
    ELSE IF b = <<>> THEN FALSE
    ELSE IF Ord(Head(a)) # Ord(Head(b)) THEN Ord(Head(a)) < Ord(Head(b))
    ELSE StrLess(Tail(a), Tail(b))

\* x put into the sorted list after every element that is not greater
RECURSIVE Insert(_, _)
Insert(sorted, x) ==
    IF sorted = <<>> THEN <<x>>
    ELSE IF StrLess(x, Head(sorted)) THEN <<x>> \o sorted
    ELSE <<Head(sorted)>> \o Insert(Tail(sorted), x)

RECURSIVE SortFrom(_, _)
SortFrom(sorted, rest) ==
    IF rest = <<>> THEN sorted ELSE SortFrom(Insert(sorted, Head(rest)), Tail(rest))

\* the years as they were collected
Unsorted(years) == years

\* display_errors.py:31  sorted(years)
Sorted(years) == SortFrom(<<>>, years)

\* display_errors.py:31  ", ".join(...)
RECURSIVE Join(_)
Join(parts) ==
    IF parts = <<>> THEN <<>>
    ELSE IF Len(parts) = 1 THEN parts[1]
    ELSE parts[1] \o TxtComma \o Join(Tail(parts))

\* display_errors.py:10, 25  station_dict.get(station_id, "Unknown Station");
\* the dict comprehension keeps the last name given for an id
StationName(station_id) ==
    LET at == {i \in DOMAIN stations : stations[i].id = station_id}
    IN  IF at = {} THEN TxtUnknownStation
        ELSE stations[CHOOSE i \in at : \A k \in at : k <= i].name

\* display_errors.py:30  "Missing" if message == "No predictions data" else message
DisplayMessage(message) ==
    IF message = TxtNoPredictions THEN TxtMissing ELSE message

\* display_errors.py:28-32  the lines printed for the messages of one station
RECURSIVE MessageLines(_)
MessageLines(ms) ==
    IF ms = <<>> THEN <<>>
    ELSE <<TxtIndent \o DisplayMessage(Head(ms).message) \o TxtColon
              \o Join(Sorted(Head(ms).years))>>
         \o MessageLines(Tail(ms))

\* display_errors.py:25-34  header, message lines, empty line
Block(entry) ==
    <<TxtStation \o entry.station_id \o TxtOpen \o StationName(entry.station_id)
         \o TxtClose>>
      \o MessageLines(entry.messages)
      \o << <<>> >>

\* display_errors.py:17-21  one iteration of `for line in f`
ReadLine ==
    /\ rpc = "read"
    /\ rpos <= Len(error_log)
    /\ LET m == Match(error_log[rpos])
       IN  station_errors' =
             IF m.matched
               THEN AddYear(station_errors, m.station_id, m.message, m.year)
               ELSE station_errors
    /\ rpos' = rpos + 1
    /\ UNCHANGED <<rpc, output, fetcher_vars>>

\* display_errors.py:16-24  the file is exhausted, the display loop begins
EndOfLog ==
    /\ rpc = "read"
    /\ rpos > Len(error_log)
    /\ rpc' = "display"
    /\ rpos' = 1
    /\ UNCHANGED <<station_errors, output, fetcher_vars>>

\* display_errors.py:24-34  one iteration of `for station_id, message_years in ...`
DisplayStation ==
    /\ rpc = "display"
    /\ rpos <= Len(station_errors)
    /\ output' = output \o Block(station_errors[rpos])
    /\ rpos' = rpos + 1
    /\ UNCHANGED <<station_errors, rpc, fetcher_vars>>

ReportDone == rpc = "display" /\ rpos > Len(station_errors)

Init ==
    /\ loads \in BOOLEAN
    /\ stations \in (IF loads THEN StationLists ELSE {<<>>})
    /\ artifacts = <<>>
    /\ error_log = <<>>
    /\ pc = "idle"
    /\ si = 1 /\ yi = 1
    /\ successful_requests = 0
    /\ failed_requests = 0
    /\ run = 0
    /\ prev_end = "idle"
    /\ requests = [k \in Keys |-> 0]
    /\ sleeps = 0
    /\ tally = ZeroTally
    /\ logged = {}
    /\ at_start = {}
    /\ persisted = {}
    /\ last = NoCall
    /\ station_errors = <<>>
    /\ rpc = "off"
    /\ rpos = 0
    /\ output = <<>>

Next ==
    \/ MainStart
    \/ MainLoadFails
    \/ CallDirFails
    \/ CallSkip
    \/ CallRequestFails
    \/ CallHttpError
    \/ CallBadJson
    \/ CallNoPredictions
    \/ CallSaved
    \/ CallOpenFails
    \/ CallWriteFails

Spec == Init /\ [][Next]_vars

\* ---------------------------------------------- Reporter: specification
Id123 == <<"1","2","3">>
StationC == [id |-> Id123, name |-> <<"G","a","m","m","a">>]

LineHttp404 == HttpErrorLine(StationA.id, 2025, 404)

\* lines error_log.txt may hold: lines the Fetcher writes, and other text
LinePool == {
    NoPredictionsLine(Id123, 2025),
    NoPredictionsLine(Id123, 2026),
    NoPredictionsLine(Id123, 30),
    LineHttp404,
    SubSeq(LineHttp404, 1, Len(LineHttp404) - 1),
    ExceptionLine(StationA.id, 2026, StrE),
    <<" ">> \o LineHttp404,
    HttpErrorLine(<<"9","a">>, 2025, 404),
    TxtErrorStation \o StationA.id \o TxtYear \o Str(2025) \o TxtColon \o <<NL>> }

Logs == UNION {[1..n -> LinePool] : n \in 0..MaxLines}

InitR ==
    /\ loads = TRUE
    /\ stations \in {<<>>, <<StationA, StationC>>}
    /\ error_log \in Logs
    /\ artifacts = <<>>
    /\ pc = "idle"
    /\ si = 1 /\ yi = 1
    /\ successful_requests = 0
    /\ failed_requests = 0
    /\ run = 0
    /\ prev_end = "idle"
    /\ requests = [k \in Keys |-> 0]
    /\ sleeps = 0
    /\ tally = ZeroTally
    /\ logged = {}
    /\ at_start = {}
    /\ persisted = {}
    /\ last = NoCall
    /\ station_errors = <<>>
    /\ rpc = "read"
    /\ rpos = 1
    /\ output = <<>>

NextR ==
    \/ ReadLine
    \/ EndOfLog
    \/ DisplayStation

SpecReport == InitR /\ [][NextR]_vars

\* ------------------------------------------------------- Fetcher: claims
\* the keys main's two loops go through
CrossProduct == {<<stations[i].id, YEARS[j]>> : i \in DOMAIN stations, j \in DOMAIN YEARS}

\* C1: an artifact exists for a key iff some earlier call for that key saved the
\* response and returned success; a call that returned Failed leaves no
\* artifact at its path.
C1_ArtifactIffSucceeded ==
    /\ \A k \in Keys : k \in DOMAIN artifacts <=> k \in persisted
    /\ last.ret = "False" => last.key \notin DOMAIN artifacts

\* C2 as claimed: a run that follows a completed run against the same directory
\* issues no request.
C2_SecondRunNoRequests ==
    (run >= 2 /\ prev_end = "done") => \A k \in Keys : requests[k] = 0

\* C2 as amended: a second run issues no request for a key whose artifact exists
\* when the run starts; a call that finds the artifact returns True without a
\* request, a write or a log line. Only keys without an artifact are requested.
C2_SecondRunRequestsOnlyMissing ==
    /\ run >= 2 => \A k \in Keys : k \in at_start => requests[k] = 0
    /\ (last.existed /\ last.ret # "raise" /\ last.ret # "none") =>
          /\ last.ret = "True"
          /\ last.requested = 0 /\ last.wrote = 0 /\ last.appended = 0

C2_Witness ==
    /\ run = 2 /\ prev_end = "done" /\ pc = "done"
    /\ tally.skipped > 0
    /\ \E k \in Keys : requests[k] > 0 /\ k \notin at_start

\* C3: a call that is not skipped and returns does exactly one of: write the
\* artifact, append one log line; a skipped call does neither.
C3_ExactlyOneSideEffect ==
    last.ret \in {"True", "False"} =>
        IF last.existed THEN last.wrote = 0 /\ last.appended = 0
        ELSE last.wrote + last.appended = 1

C5_NoExceptionReachesDriver ==
    /\ last.ret # "raise"
    /\ pc # "crashed"

\* C6: in one run no key is requested more than once, and when the run is over
\* every key of the cross product has an artifact or a log line of this run.
C6_OneRequestPerKeyAllCovered ==
    /\ \A k \in Keys : requests[k] <= 1
    /\ pc \in {"done", "crashed"} =>
          \A k \in CrossProduct : k \in DOMAIN artifacts \/ k \in logged

\* C7: a completed run over n >= 1 stations has slept 5n - 1 times.
C7_SleepsBetweenCalls ==
    (pc = "done" /\ Len(stations) >= 1) =>
        sleeps = Len(YEARS) * Len(stations) - 1

\* C8 as claimed: Success, Failed and Skipped are counted apart, a key whose
\* artifact existed being no Success.
C8_ThreeCounts ==
    /\ successful_requests = tally.saved
    /\ failed_requests = tally.failed
    /\ pc = "done" => tally.saved + tally.failed + tally.skipped
                         = Len(stations) * Len(YEARS)

\* C8 as amended: two counts; a call that returned True (saved or skipped) adds
\* one to successful_requests, one that returned False adds one to
\* failed_requests, and at the summary they add up to the number of keys.
C8_TwoCounts ==
    /\ successful_requests = tally.saved + tally.skipped
    /\ failed_requests = tally.failed
    /\ pc = "done" => successful_requests + failed_requests
                         = Len(stations) * Len(YEARS)

C8_Witness ==
    /\ pc = "done"
    /\ tally.saved > 0 /\ tally.skipped > 0 /\ tally.failed > 0

\* ------------------------------------------------------ Reporter: claims
AllDigits(t) == t # <<>> /\ \A i \in DOMAIN t : IsDigit(t[i])
OneLineText(t) == t # <<>> /\ \A i \in DOMAIN t : t[i] # NL

\* The readings <<station, year, message>> of a line of the shape
\* "Error: Station <digits>, year <digits>: <message>", with or without the
\* newline that ends it; a line of another shape has none.
Readings(line) ==
    LET n == Len(line)
        a == Len(TxtErrorStation)
    IN  { <<SubSeq(line, a + 1, x[1]),
            SubSeq(line, x[1] + Len(TxtYear) + 1, x[2]),
            SubSeq(line, x[2] + Len(TxtColon) + 1, n - x[3])>> :
          x \in { y \in (1..n) \X (1..n) \X {0, 1} :
                    /\ a + 1 <= y[1]
                    /\ y[1] + Len(TxtYear) + 1 <= y[2]
                    /\ y[2] + Len(TxtColon) + 1 <= n - y[3]
                    /\ AllDigits(SubSeq(line, a + 1, y[1]))
                    /\ AllDigits(SubSeq(line, y[1] + Len(TxtYear) + 1, y[2]))
                    /\ OneLineText(SubSeq(line, y[2] + Len(TxtColon) + 1, n - y[3]))
                    /\ line = TxtErrorStation
                                \o SubSeq(line, a + 1, y[1])
                                \o TxtYear
                                \o SubSeq(line, y[1] + Len(TxtYear) + 1, y[2])
                                \o TxtColon
                                \o SubSeq(line, y[2] + Len(TxtColon) + 1, n - y[3])
                                \o (IF y[3] = 1 THEN <<NL>> ELSE <<>>) } }

ReadingTable == [l \in LinePool |-> Readings(l)]

\* the year tokens, in log order, of the lines that read as (station, message)
RECURSIVE YearsIn(_, _, _)
YearsIn(lines, station_id, message) ==
    IF lines = <<>> THEN <<>>
    ELSE LET here == {t \in ReadingTable[Head(lines)] :
                         t[1] = station_id /\ t[3] = message}
         IN  (IF here = {} THEN <<>> ELSE <<(CHOOSE t \in here : TRUE)[2]>>)
                \o YearsIn(Tail(lines), station_id, message)

\* the lines the reading loop has consumed
LinesRead == IF rpc = "read" THEN SubSeq(error_log, 1, rpos - 1) ELSE error_log

\* C9: station_errors maps station -> message -> the year tokens, in log order,
\* of the lines of the shape "Error: Station <digits>, year <digits>: <message>";
\* a line of another shape (an "Exception:" line among them) adds no station,
\* no message and no year.
C9_GroupingIsTheShapedLines ==
    /\ \A i, k \in DOMAIN station_errors :
          station_errors[i].station_id = station_errors[k].station_id => i = k
    /\ \A i \in DOMAIN station_errors :
          LET e == station_errors[i]
          IN  /\ e.messages # <<>>
              /\ \A j, k \in DOMAIN e.messages :
                    e.messages[j].message = e.messages[k].message => j = k
              /\ \A j \in DOMAIN e.messages :
                    /\ e.messages[j].years # <<>>
                    /\ e.messages[j].years
                          = YearsIn(LinesRead, e.station_id, e.messages[j].message)
    /\ \A n \in DOMAIN LinesRead :
          \A t \in ReadingTable[LinesRead[n]] :
              \E i \in DOMAIN station_errors :
                  /\ station_errors[i].station_id = t[1]
                  /\ \E j \in DOMAIN station_errors[i].messages :
                        station_errors[i].messages[j].message = t[3]

C9_Witness ==
    /\ rpc = "display"
    /\ Len(error_log) = 3
    /\ error_log[2] = ExceptionLine(StationA.id, 2026, StrE)
    /\ Len(station_errors) = 1
    /\ Len(station_errors[1].messages) = 1
    /\ Len(station_errors[1].messages[1].years) = 2

\* a < b in the lexicographic order of the code points
LexLess(a, b) ==
    \E k \in 0..Len(a) :
        /\ k <= Len(b)
        /\ SubSeq(a, 1, k) = SubSeq(b, 1, k)
        /\ \/ k = Len(a) /\ k < Len(b)
           \/ k < Len(a) /\ k < Len(b) /\ Ord(a[k + 1]) < Ord(b[k + 1])

\* the elements of S in ascending order of Rank
InOrder(S, Rank(_)) ==
    CHOOSE q \in [1..Cardinality(S) -> S] :
        \A a, b \in DOMAIN q : a < b => Rank(q[a]) < Rank(q[b])

\* the rearrangement of years that ascends in the lexicographic order
Ascending(years) ==
    CHOOSE q \in {[i \in DOMAIN years |-> years[f[i]]] :
                     f \in Permutations(DOMAIN years)} :
        \A a, b \in DOMAIN q : a < b => ~LexLess(q[b], q[a])

FirstLineOf(station_id) ==
    CHOOSE n \in DOMAIN error_log :
        /\ \E t \in ReadingTable[error_log[n]] : t[1] = station_id
        /\ \A k \in 1..(n - 1) :
              \A t \in ReadingTable[error_log[k]] : t[1] # station_id

FirstLineWith(station_id, message) ==
    CHOOSE n \in DOMAIN error_log :
        /\ \E t \in ReadingTable[error_log[n]] : t[1] = station_id /\ t[3] = message
        /\ \A k \in 1..(n - 1) :
              \A t \in ReadingTable[error_log[k]] :
                  ~(t[1] = station_id /\ t[3] = message)

AllReadings == UNION {ReadingTable[error_log[n]] : n \in DOMAIN error_log}

\* what the report of error_log is to be: a block per station in the order of
\* the stations' first lines, in it a line per message in the order of the
\* messages' first lines, on it the years in ascending string order
ExpectedMessageLine(station_id, message) ==
    TxtIndent
      \o (IF message = TxtNoPredictions THEN TxtMissing ELSE message)
      \o TxtColon
      \o Join(Ascending(YearsIn(error_log, station_id, message)))

ExpectedBlock(station_id) ==
    LET ms == InOrder({t[3] : t \in {r \in AllReadings : r[1] = station_id}},
                      LAMBDA m : FirstLineWith(station_id, m))
    IN  <<TxtStation \o station_id \o TxtOpen \o StationName(station_id) \o TxtClose>>
          \o [j \in DOMAIN ms |-> ExpectedMessageLine(station_id, ms[j])]
          \o << <<>> >>

RECURSIVE Flatten(_)
Flatten(blocks) ==
    IF blocks = <<>> THEN <<>> ELSE Head(blocks) \o Flatten(Tail(blocks))

ExpectedOutput ==
    LET ss == InOrder({t[1] : t \in AllReadings}, FirstLineOf)
    IN  Flatten([i \in DOMAIN ss |-> ExpectedBlock(ss[i])])

LineMissing2025_2026 ==
    <<" "," ","M","i","s","s","i","n","g",":"," ","2","0","2","5",","," ","2","0","2","6">>

====
